---- MODULE Spec2Model ----
(***************************************************************************)
(* SanSure AI backend (backend/main.py, backend/groq_service.py,           *)
(* backend/models.py): four request handlers that render a prompt, make    *)
(* one chat-completion call and interpret the reply, plus /health.         *)
(*                                                                         *)
(* Texts are sequences of one-character strings.  The backquote character  *)
(* cannot be written inside a TLA+ string, so it is the atom BT.           *)
(* Python values are tagged records (PyNone, PyBool, PyInt, PyStr, PyList, *)
(* PyDict); a value of type "str | None" is an OptText record.             *)
(***************************************************************************)
EXTENDS Integers, Sequences, FiniteSets, TLC

(***************************************************************************)
(* Bounds of the model.                                                    *)
(***************************************************************************)
\* longest submissions list a CollusionRequest carries in the model
MaxSubmissions == 4
\* number of characters by which the long reply exceeds the snippet length
LongExtra == 2

(***************************************************************************)
(* Program constants.                                                      *)
(***************************************************************************)
\* logger.error("Failed to parse JSON: %s", text[:200])
LogSnippetLen == 200
\* raise ValueError(f"Could not parse ... response: {text[:300]}")
SnippetLen == 300
\* HTTPException(status_code=500, ...)
StatusError == 500

VISION_MODEL == "meta-llama/llama-4-scout-17b-16e-instruct"
TEXT_MODEL == "meta-llama/llama-4-scout-17b-16e-instruct"
PLACEHOLDER_API_KEY == "PLACEHOLDER_API_KEY"
ConfigErrorMessage == "GROQ_API_KEY not set in backend/.env"

(***************************************************************************)
(* Characters and texts.                                                   *)
(***************************************************************************)
BT == "BACKQUOTE"
DQ == "\""
NL == "\n"
FENCE == <<BT, BT, BT>>
JSONWORD == <<"j", "s", "o", "n">>

Min(a, b) == IF a <= b THEN a ELSE b

\* Python's text[:n]
Slice(s, n) == SubSeq(s, 1, Min(Len(s), n))

\* does the text p occur in s at position i (1-based)?
StartsAt(s, i, p) ==
    /\ i + Len(p) - 1 <= Len(s)
    /\ \A k \in 1..Len(p) : s[i + k - 1] = p[k]

\* the text of n copies of the character c
Repeat(c, n) == [k \in 1..n |-> c]

\* a value of type "str | None"
NoneText == [isNone |-> TRUE, s |-> <<>>]
Txt(s) == [isNone |-> FALSE, s |-> s]

(***************************************************************************)
(* Python values.                                                          *)
(***************************************************************************)
PyNone == [t |-> "None"]
PyBool(b) == [t |-> "bool", b |-> b]
PyInt(n) == [t |-> "int", n |-> n]
PyStr(s) == [t |-> "str", s |-> s]
PyList(a) == [t |-> "list", a |-> a]
\* a dict is a function from key texts to values
PyDict(o) == [t |-> "dict", o |-> o]

\* Python truth value testing, as used by "if result:" and "if not text"
Truthy(v) ==
    CASE v.t = "None" -> FALSE
      [] v.t = "bool" -> v.b
      [] v.t = "int"  -> v.n # 0
      [] v.t = "str"  -> Len(v.s) > 0
      [] v.t = "list" -> Len(v.a) > 0
      [] v.t = "dict" -> DOMAIN v.o # {}

(***************************************************************************)
(* re.sub(r"```json\n?|```", "", text): scanning left to right, every      *)
(* match of the first alternative that applies is deleted.                 *)
(***************************************************************************)
\* length of the match of the pattern at position i, 0 when there is none:
\* the first alternative is tried first and its optional newline is greedy
FenceMatchLen(s, i) ==
    IF StartsAt(s, i, FENCE \o JSONWORD \o <<NL>>) THEN 8
    ELSE IF StartsAt(s, i, FENCE \o JSONWORD) THEN 7
    ELSE IF StartsAt(s, i, FENCE) THEN 3
    ELSE 0

\* the text from position i on with every match deleted: the scan copies
\* the characters up to the leftmost match and resumes right after it
RECURSIVE ReSubFencesFrom(_, _)
ReSubFencesFrom(s, i) ==
    LET hits == {j \in i..Len(s) : FenceMatchLen(s, j) > 0}
    IN  IF hits = {} THEN SubSeq(s, i, Len(s))
        ELSE LET j == CHOOSE h \in hits : \A g \in hits : h <= g
             IN  SubSeq(s, i, j - 1) \o ReSubFencesFrom(s, j + FenceMatchLen(s, j))

ReSubFences(s) == ReSubFencesFrom(s, 1)

\* whitespace removed by str.strip() and skipped by the JSON decoder
IsSpace(c) == c \in {" ", NL, "\t", "\r"}

RECURSIVE LStrip(_)
LStrip(s) == IF Len(s) > 0 /\ IsSpace(s[1]) THEN LStrip(Tail(s)) ELSE s

RECURSIVE RStrip(_)
RStrip(s) ==
    IF Len(s) > 0 /\ IsSpace(s[Len(s)]) THEN RStrip(SubSeq(s, 1, Len(s) - 1)) ELSE s

Strip(s) == RStrip(LStrip(s))

(***************************************************************************)
(* json.loads on a text: a recursive-descent decoder of objects, arrays,   *)
(* strings (with the single-character escapes), integers and the three     *)
(* literals.  A result is [ok, v, next]; ok = FALSE is JSONDecodeError.    *)
(* The reply texts of the model hold no fraction, exponent or \u escape.   *)
(***************************************************************************)
Digits == <<"0", "1", "2", "3", "4", "5", "6", "7", "8", "9">>
IsDigit(c) == \E k \in 1..10 : Digits[k] = c
DigitVal(c) == (CHOOSE k \in 1..10 : Digits[k] = c) - 1

DecodeFail == [ok |-> FALSE, v |-> PyNone, next |-> 0]
Decoded(v, n) == [ok |-> TRUE, v |-> v, next |-> n]

RECURSIVE SkipWs(_, _)
SkipWs(s, i) == IF i <= Len(s) /\ IsSpace(s[i]) THEN SkipWs(s, i + 1) ELSE i

EscapeOf(c) ==
    CASE c = DQ   -> DQ
      [] c = "\\" -> "\\"
      [] c = "/"  -> "/"
      [] c = "n"  -> NL
      [] c = "t"  -> "\t"
      [] c = "r"  -> "\r"
      [] OTHER    -> ""

\* the characters of a string body from position i, up to the closing quote
RECURSIVE ScanString(_, _, _)
ScanString(s, i, acc) ==
    IF i > Len(s) THEN DecodeFail
    ELSE IF s[i] = DQ THEN Decoded(PyStr(acc), i + 1)
    ELSE IF s[i] = "\\"
         THEN IF i + 1 <= Len(s) /\ EscapeOf(s[i + 1]) # ""
              THEN ScanString(s, i + 2, Append(acc, EscapeOf(s[i + 1])))
              ELSE DecodeFail
    ELSE IF s[i] \in {NL, "\t", "\r"} THEN DecodeFail
    ELSE ScanString(s, i + 1, Append(acc, s[i]))

RECURSIVE ScanDigits(_, _, _)
ScanDigits(s, i, acc) ==
    IF i <= Len(s) /\ IsDigit(s[i])
    THEN ScanDigits(s, i + 1, 10 * acc + DigitVal(s[i]))
    ELSE [n |-> acc, next |-> i]

\* NUMBER_RE, integer part: -?(0|[1-9]\d*)
ScanNumber(s, i) ==
    LET neg == s[i] = "-"
        j   == IF neg THEN i + 1 ELSE i
    IN  IF j > Len(s) \/ ~IsDigit(s[j]) THEN DecodeFail
        ELSE IF s[j] = "0" THEN Decoded(PyInt(0), j + 1)
        ELSE LET d == ScanDigits(s, j, 0)
             IN  Decoded(PyInt(IF neg THEN 0 - d.n ELSE d.n), d.next)

RECURSIVE ScanValue(_, _)
RECURSIVE ScanMembers(_, _, _)
RECURSIVE ScanElements(_, _, _)

ScanValue(s, i) ==
    IF i > Len(s) THEN DecodeFail
    ELSE IF s[i] = DQ THEN ScanString(s, i + 1, <<>>)
    ELSE IF s[i] = "{"
         THEN LET j == SkipWs(s, i + 1)
              IN  IF j <= Len(s) /\ s[j] = "}"
                  THEN Decoded(PyDict(<<>>), j + 1)
                  ELSE ScanMembers(s, j, <<>>)
    ELSE IF s[i] = "["
         THEN LET j == SkipWs(s, i + 1)
              IN  IF j <= Len(s) /\ s[j] = "]"
                  THEN Decoded(PyList(<<>>), j + 1)
                  ELSE ScanElements(s, j, <<>>)
    ELSE IF StartsAt(s, i, <<"n", "u", "l", "l">>) THEN Decoded(PyNone, i + 4)
    ELSE IF StartsAt(s, i, <<"t", "r", "u", "e">>) THEN Decoded(PyBool(TRUE), i + 4)
    ELSE IF StartsAt(s, i, <<"f", "a", "l", "s", "e">>)
         THEN Decoded(PyBool(FALSE), i + 5)
    ELSE IF s[i] = "-" \/ IsDigit(s[i]) THEN ScanNumber(s, i)
    ELSE DecodeFail

\* i is at the opening quote expected for the next key; a later duplicate
\* key replaces the earlier one
ScanMembers(s, i, o) ==
    IF i > Len(s) \/ s[i] # DQ THEN DecodeFail
    ELSE LET k == ScanString(s, i + 1, <<>>)
         IN  IF ~k.ok THEN DecodeFail
             ELSE LET c == SkipWs(s, k.next)
                  IN  IF c > Len(s) \/ s[c] # ":" THEN DecodeFail
                      ELSE LET v == ScanValue(s, SkipWs(s, c + 1))
                           IN  IF ~v.ok THEN DecodeFail
                               ELSE LET o2 == (k.v.s :> v.v) @@ o
                                        e  == SkipWs(s, v.next)
                                    IN  IF e > Len(s) THEN DecodeFail
                                        ELSE IF s[e] = "}"
                                             THEN Decoded(PyDict(o2), e + 1)
                                        ELSE IF s[e] = ","
                                             THEN ScanMembers(s, SkipWs(s, e + 1), o2)
                                        ELSE DecodeFail

ScanElements(s, i, a) ==
    LET v == ScanValue(s, i)
    IN  IF ~v.ok THEN DecodeFail
        ELSE LET a2 == Append(a, v.v)
                 e  == SkipWs(s, v.next)
             IN  IF e > Len(s) THEN DecodeFail
                 ELSE IF s[e] = "]" THEN Decoded(PyList(a2), e + 1)
                 ELSE IF s[e] = "," THEN ScanElements(s, SkipWs(s, e + 1), a2)
                 ELSE DecodeFail

\* json.loads(s): [ok, v]; ok = FALSE stands for json.JSONDecodeError
json_loads(s) ==
    LET r == ScanValue(s, SkipWs(s, 1))
    IN  IF r.ok /\ SkipWs(s, r.next) = Len(s) + 1
        THEN [ok |-> TRUE, v |-> r.v]
        ELSE [ok |-> FALSE, v |-> PyNone]

(***************************************************************************)
(* safe_json_parse(text): [ret, log]: the returned value and the lines it  *)
(* writes to the error log.                                                *)
(***************************************************************************)
safe_json_parse(text) ==
    IF text.isNone \/ Len(text.s) = 0
    THEN [ret |-> PyNone, log |-> <<>>]
    ELSE LET cleaned == Strip(ReSubFences(text.s))
             r       == json_loads(cleaned)
         IN  IF r.ok
             THEN [ret |-> r.v, log |-> <<>>]
             ELSE [ret |-> PyNone,
                   log |-> <<[level |-> "ERROR", logger |-> "groq_service",
                              line |-> [head |-> "Failed to parse JSON: ",
                                        tail |-> Slice(text.s, LogSnippetLen)]]>>]

(***************************************************************************)
(* Exceptions and the values the dispatcher hands back.                    *)
(***************************************************************************)
\* a message is a fixed head followed by the characters of a snippet
Msg(head, tail) == [head |-> head, tail |-> tail]
Exc(type, head, tail) == [type |-> type, msg |-> Msg(head, tail)]
NoExc == Exc("", "", <<>>)
\* str(e)
StrOf(e) == e.msg

\* what a call of a dispatcher function ends with
Returned(v) == [raised |-> FALSE, value |-> v, exc |-> NoExc]
Raised(e) == [raised |-> TRUE, value |-> PyNone, exc |-> e]
NoOutcome == [raised |-> FALSE, value |-> PyNone, exc |-> NoExc]

(***************************************************************************)
(* get_client(): the credential read from the environment is an optional   *)
(* string, [isNone, s].                                                    *)
(***************************************************************************)
KeyUnset == [isNone |-> TRUE, s |-> ""]
Key(k) == [isNone |-> FALSE, s |-> k]

get_client_lenient(api_key) ==
    IF api_key.isNone \/ api_key.s = ""
    THEN [ok |-> FALSE, exc |-> Exc("ValueError", ConfigErrorMessage, <<>>)]
    ELSE [ok |-> TRUE, exc |-> NoExc]

get_client(api_key) ==
    IF api_key.isNone \/ api_key.s = "" \/ api_key.s = PLACEHOLDER_API_KEY
    THEN [ok |-> FALSE, exc |-> Exc("ValueError", ConfigErrorMessage, <<>>)]
    ELSE [ok |-> TRUE, exc |-> NoExc]

(***************************************************************************)
(* Request records (models.py) and the requests of the model.              *)
(***************************************************************************)
ChecklistModel(door, water, clean, toilet) ==
    [door |-> door, water |-> water, clean |-> clean, toilet |-> toilet]

VisionRequest(img, cl) == [base64_image |-> img, checklist |-> cl]

SubmissionModel(id, fac, who, score, cl, features, discrepancies) ==
    [id |-> id, facilityId |-> fac, submitterType |-> who, score |-> score,
     checklist |-> cl, features |-> features, discrepancies |-> discrepancies]

\* submissions: List[SubmissionModel], of any length
CollusionRequest(subs) == [submissions |-> subs]

\* floats are kept as the text Python renders them with
HealthNarrativeRequest(village, population, avg_score, cases) ==
    [village_name |-> village, population |-> population,
     avg_score |-> avg_score, cases_prevented |-> cases]

InvestorSignalRequest(village, history, avg, std_dev) ==
    [village_name |-> village, history |-> history, avg |-> avg, std_dev |-> std_dev]

SubHousehold ==
    SubmissionModel("s-1", "F-1", "household", 82,
                    ChecklistModel(TRUE, TRUE, TRUE, TRUE), <<"door", "bucket">>, <<>>)
SubPeer ==
    SubmissionModel("s-2", "F-1", "peer", 78,
                    ChecklistModel(TRUE, FALSE, TRUE, TRUE), <<"door">>, <<"no water">>)
SubAuditor ==
    SubmissionModel("s-3", "F-2", "auditor", 55,
                    ChecklistModel(FALSE, FALSE, TRUE, TRUE), <<>>, <<"no door">>)
SubSecondPeer ==
    SubmissionModel("s-4", "F-1", "peer", 64,
                    ChecklistModel(TRUE, TRUE, FALSE, TRUE), <<"door", "tap">>, <<>>)
Submissions == {SubHousehold, SubPeer, SubAuditor, SubSecondPeer}

\* the lists of at most n different elements of S, in every order
RECURSIVE SeqsUpTo(_, _)
SeqsUpTo(S, n) ==
    IF n = 0 THEN {<<>>}
    ELSE LET shorter == SeqsUpTo(S, n - 1)
         IN  shorter \cup {Append(q[1], q[2]) :
                              q \in {c \in shorter \X S : \A k \in DOMAIN c[1] : c[1][k] # c[2]}}

VisionRequests ==
    {VisionRequest("aGVsbG8=", ChecklistModel(TRUE, TRUE, FALSE, TRUE)),
     VisionRequest("", ChecklistModel(FALSE, FALSE, FALSE, FALSE))}
CollusionRequests == {CollusionRequest(q) : q \in SeqsUpTo(Submissions, MaxSubmissions)}
HealthNarrativeRequests ==
    {HealthNarrativeRequest("Rampur", 1200, "71.5", 14),
     HealthNarrativeRequest("", 0, "0.0", 0)}
InvestorSignalRequests ==
    {InvestorSignalRequest("Rampur", <<"60.0", "65.0", "70.0">>, "65.0", "4.08"),
     InvestorSignalRequest("Rampur", <<>>, "0.0", "0.0")}

(***************************************************************************)
(* Prompt rendering.  A rendered f-string is the sequence of its pieces:   *)
(* the literal stretches of the template and the rendered fields.          *)
(***************************************************************************)
\* str() of a bool
BoolStr(b) == IF b THEN "True" ELSE "False"

\* the pieces of repr() of a list whose items are already rendered
RECURSIVE JoinItems(_)
JoinItems(items) ==
    IF Len(items) = 0 THEN <<>>
    ELSE IF Len(items) = 1 THEN <<items[1]>>
    ELSE <<items[1], ", ">> \o JoinItems(Tail(items))

ListRepr(items) == <<"[">> \o JoinItems(items) \o <<"]">>

\* repr() of a str item
Quoted(items) == [k \in 1..Len(items) |-> "'" \o items[k] \o "'"]

\* str(checklist.model_dump())
DumpChecklist(cl) ==
    <<"{'door': ", BoolStr(cl.door), ", 'water': ", BoolStr(cl.water),
      ", 'clean': ", BoolStr(cl.clean), ", 'toilet': ", BoolStr(cl.toilet), "}">>

VisionPrompt(req) ==
    LET cl == req.checklist
    IN  <<"You are SanSure's hygiene scoring engine. [...] User provided checklist:\n",
          "- Door present: ", BoolStr(cl.door),
          "\n- Water available: ", BoolStr(cl.water),
          "\n- Clean floor: ", BoolStr(cl.clean),
          "\n- Toilet clearly visible: ", BoolStr(cl.toilet),
          "\n\nReturn ONLY valid JSON (no markdown fences): [...]">>

\* the inner function fmt of run_collusion_check
fmt(s) ==
    <<"Score: ", ToString(s.score), "\nChecklist: ">> \o DumpChecklist(s.checklist)
        \o <<"\nFeatures: ">> \o ListRepr(Quoted(s.features))

CollusionHead ==
    "You are SanSure's collusion detection engine. Three independent parties submitted assessments for facility "
HouseholdLabel == ":\n\nHOUSEHOLD SUBMISSION:\n"
PeerLabel == "\n\nPEER SUBMISSION (non-adjacent):\n"
AuditorLabel == "\n\nAUDITOR SUBMISSION (separate ward):\n"
CollusionTail ==
    "\n\nAnalyze for score variance, checklist consistency, feature implausibility, and statistical independence. [...]"
NotAvailable == "N/A"
UnknownFacility == "UNKNOWN"

\* subs[i] with Python's 0-based index; IndexError past the end
GetItem(subs, i) ==
    IF i < Len(subs) THEN Returned(subs[i + 1])
    ELSE Raised(Exc("IndexError", "list index out of range", <<>>))

\* {fmt(subs[i]) if len(subs) > i else 'N/A'}: [raised, pieces, exc]
SlotDropped(subs, i) ==
    IF Len(subs) > i
    THEN LET g == GetItem(subs, i)
         IN  IF g.raised THEN [raised |-> TRUE, pieces |-> <<>>, exc |-> g.exc]
             ELSE [raised |-> FALSE, pieces |-> fmt(g.value), exc |-> NoExc]
    ELSE [raised |-> FALSE, pieces |-> <<>>, exc |-> NoExc]

Slot(subs, i) ==
    IF Len(subs) > i
    THEN LET g == GetItem(subs, i)
         IN  IF g.raised THEN [raised |-> TRUE, pieces |-> <<>>, exc |-> g.exc]
             ELSE [raised |-> FALSE, pieces |-> fmt(g.value), exc |-> NoExc]
    ELSE [raised |-> FALSE, pieces |-> <<NotAvailable>>, exc |-> NoExc]

\* lines 142-175 of run_collusion_check: [raised, prompt, exc]
CollusionPrompt(req) ==
    LET subs == req.submissions
        facility_id == IF Len(subs) > 0 THEN subs[1].facilityId ELSE UnknownFacility
        s0 == Slot(subs, 0)
        s1 == Slot(subs, 1)
        s2 == Slot(subs, 2)
    IN  IF s0.raised THEN [raised |-> TRUE, prompt |-> <<>>, exc |-> s0.exc]
        ELSE IF s1.raised THEN [raised |-> TRUE, prompt |-> <<>>, exc |-> s1.exc]
        ELSE IF s2.raised THEN [raised |-> TRUE, prompt |-> <<>>, exc |-> s2.exc]
        ELSE [raised |-> FALSE,
              prompt |-> <<CollusionHead, facility_id, HouseholdLabel>> \o s0.pieces
                            \o <<PeerLabel>> \o s1.pieces
                            \o <<AuditorLabel>> \o s2.pieces \o <<CollusionTail>>,
              exc |-> NoExc]

HealthNarrativePrompt(req) ==
    <<"You are speaking to the community of ", req.village_name,
      ". Population: ", ToString(req.population),
      " people.\n\nOver the past 90 days, your village maintained clean toilets. The improvement prevented an estimated ",
      ToString(req.cases_prevented),
      " cases of diarrheal illness.\n\nWrite ONE warm paragraph (4-6 sentences) [...]">>

InvestorSignalPrompt(req) ==
    <<"You are SanSure's investment signal generator. Analyze this 90-day hygiene score history for ",
      req.village_name, ":\n\nScores: ">> \o ListRepr(req.history)
        \o <<"\nAverage: ", req.avg, "\nStandard Deviation: ", req.std_dev,
             "\n\nGenerate investment signals [...]">>

\* client.chat.completions.create(model=..., temperature=..., messages=[...])
ChatCall(model, temperature, image, prompt) ==
    [model |-> model, temperature |-> temperature,
     system |-> "SANSURE_SYSTEM_INSTRUCTION", image |-> image, user |-> prompt]

(***************************************************************************)
(* What the provider answers: response.choices[0].message.content, a       *)
(* "str | None", or an exception raised by the call.                       *)
(***************************************************************************)
ObjA == <<"{", DQ, "a", DQ, ":", "1", "}">>
ObjEmpty == <<"{", "}">>
ObjOutOfRange == <<"{", DQ, "s", DQ, ":", " ", "9", "9", "9", ",", DQ, "r", DQ, ":", DQ, "x", DQ, "}">>
ObjFenceInside == <<"{", DQ, "a", DQ, ":", DQ>> \o FENCE \o <<DQ, "}">>
Zero == <<"0">>
Null == <<"n", "u", "l", "l">>
Truncated == <<"{", DQ, "a", DQ, ":", "1">>
Prose == <<"W", "e", " ", "d", "i", "d", ".">>
LongText == Repeat("x", SnippetLen + LongExtra)

\* a text inside an opening ```json line and a closing ``` line
Fenced(t) == FENCE \o JSONWORD \o <<NL>> \o t \o <<NL>> \o FENCE

BareTexts ==
    {ObjA, ObjEmpty, ObjOutOfRange, ObjFenceInside, Zero, Null, Truncated, Prose, LongText}
Contents ==
    {NoneText, Txt(<<>>)} \cup {Txt(t) : t \in BareTexts}
        \cup {Txt(Fenced(t)) : t \in BareTexts \ {Prose, LongText}}

UpstreamErrors ==
    {Exc("APIConnectionError", "Connection error.", <<>>),
     Exc("RateLimitError", "Error code: 429", <<>>)}

NoReply == [kind |-> "none", content |-> NoneText, exc |-> NoExc]
UpstreamOutcomes ==
    {[kind |-> "content", content |-> c, exc |-> NoExc] : c \in Contents}
        \cup {[kind |-> "error", content |-> NoneText, exc |-> e] : e \in UpstreamErrors}

(***************************************************************************)
(* The dispatcher functions after the call has returned `text`:            *)
(* [out, parsed, log], parsed being what safe_json_parse returned.         *)
(***************************************************************************)
\* safe_json_parse was not called
NotParsed == [t |-> "not parsed"]

\* raise ValueError(f"<head>{text[:300]}"): slicing None is a TypeError
RaiseCouldNotParse(head, text) ==
    IF text.isNone
    THEN Raised(Exc("TypeError", "'NoneType' object is not subscriptable", <<>>))
    ELSE Raised(Exc("ValueError", head, Slice(text.s, SnippetLen)))

run_vision_analysis_finish(text) ==
    LET p == safe_json_parse(text)
    IN  [out |-> IF Truthy(p.ret) THEN Returned(p.ret)
                 ELSE RaiseCouldNotParse("Could not parse vision response: ", text),
         parsed |-> p.ret, log |-> p.log]

run_collusion_check_finish(text) ==
    LET p == safe_json_parse(text)
    IN  [out |-> IF Truthy(p.ret) THEN Returned(p.ret)
                 ELSE RaiseCouldNotParse("Could not parse collusion response: ", text),
         parsed |-> p.ret, log |-> p.log]

generate_health_narrative_parsing(text) ==
    LET p == safe_json_parse(text)
    IN  [out |-> IF Truthy(p.ret) THEN Returned(p.ret)
                 ELSE Returned(PyStr(IF text.isNone THEN <<>> ELSE text.s)),
         parsed |-> p.ret, log |-> p.log]

\* return response.choices[0].message.content or ""
generate_health_narrative_finish(text) ==
    [out |-> Returned(PyStr(IF text.isNone \/ Len(text.s) = 0 THEN <<>> ELSE text.s)),
     parsed |-> NotParsed, log |-> <<>>]

generate_investor_signal_finish(text) ==
    LET p == safe_json_parse(text)
    IN  [out |-> IF Truthy(p.ret) THEN Returned(p.ret)
                 ELSE RaiseCouldNotParse("Could not parse investor signal response: ", text),
         parsed |-> p.ret, log |-> p.log]

(***************************************************************************)
(* The router (main.py).                                                   *)
(***************************************************************************)
NoResp == [status |-> 0, body |-> PyNone]
\* a handler that returns normally
Ok200(body) == [status |-> 200, body |-> body]

\* except Exception as e: logger.error(head, e);
\* raise HTTPException(status_code=500, detail=str(e)): [resp, log]
router_except_typed(head, e) ==
    [resp |-> [status |-> StatusError, body |-> [detail |-> StrOf(e), error |-> e.type]],
     log  |-> <<[level |-> "ERROR", logger |-> "main",
                 line |-> [head |-> head, tail |-> StrOf(e)]]>>]

router_except(head, e) ==
    [resp |-> [status |-> StatusError, body |-> [detail |-> StrOf(e)]],
     log  |-> <<[level |-> "ERROR", logger |-> "main",
                 line |-> [head |-> head, tail |-> StrOf(e)]]>>]

(***************************************************************************)
(* State.  One request is followed from its arrival to its response; the   *)
(* next one starts from a clean slate, as handlers share nothing.          *)
(***************************************************************************)
VARIABLES
    apiKey,   \* os.getenv("GROQ_API_KEY")
    pc,       \* "idle", "calling" (blocked in the outbound call) or "done"
    cur,      \* the request being handled: [endpoint, body]
    prompt,   \* the prompt rendered for it
    calls,    \* the outbound chat-completion calls made for it, in order
    reply,    \* what the provider answered
    parsed,   \* what safe_json_parse returned for the answer
    outcome,  \* how the dispatcher function ended
    resp,     \* the HTTP response
    log       \* the error lines logged for it

vars == <<apiKey, pc, cur, prompt, calls, reply, parsed, outcome, resp, log>>

ApiKeys == {KeyUnset, Key(""), Key(PLACEHOLDER_API_KEY), Key("gsk_live")}
NoRequest == [endpoint |-> "none", body |-> <<>>]
StructuredEndpoints == {"vision", "collusion", "investor-signal"}
NonHealthEndpoints == StructuredEndpoints \cup {"health-narrative"}

Init ==
    /\ apiKey \in ApiKeys
    /\ pc = "idle"
    /\ cur = NoRequest
    /\ prompt = <<>>
    /\ calls = <<>>
    /\ reply = NoReply
    /\ parsed = NotParsed
    /\ outcome = NoOutcome
    /\ resp = NoResp
    /\ log = <<>>

\* /health answering a missing credential the way the other handlers do
health_raising ==
    /\ pc \in {"idle", "done"}
    /\ LET c == get_client(apiKey)
       IN  resp' = IF c.ok THEN Ok200([status |-> "ok", model |-> VISION_MODEL])
                   ELSE [status |-> StatusError, body |-> [detail |-> StrOf(c.exc)]]
    /\ pc' = "done"
    /\ cur' = [endpoint |-> "health", body |-> <<>>]
    /\ prompt' = <<>>
    /\ calls' = <<>>
    /\ reply' = NoReply
    /\ parsed' = NotParsed
    /\ outcome' = NoOutcome
    /\ log' = <<>>
    /\ UNCHANGED apiKey

\* @app.get("/health")
health ==
    /\ pc \in {"idle", "done"}
    /\ LET c == get_client(apiKey)
       IN  resp' = IF c.ok THEN Ok200([status |-> "ok", model |-> VISION_MODEL])
                   ELSE Ok200([status |-> "error", detail |-> StrOf(c.exc)])
    /\ pc' = "done"
    /\ cur' = [endpoint |-> "health", body |-> <<>>]
    /\ prompt' = <<>>
    /\ calls' = <<>>
    /\ reply' = NoReply
    /\ parsed' = NotParsed
    /\ outcome' = NoOutcome
    /\ log' = <<>>
    /\ UNCHANGED apiKey

\* the except clause of a handler: exception e reaches it after the lines
\* `prior` were logged
HandlerFails(head, e, prior) ==
    LET r == router_except(head, e)
    IN  /\ pc' = "done"
        /\ outcome' = Raised(e)
        /\ resp' = r.resp
        /\ log' = prior \o r.log

\* client = get_client(); response = client.chat.completions.create(...):
\* with a client the one call `call` is made and the handler blocks in it
CallsProvider(head, call) ==
    LET c == get_client(apiKey)
    IN  IF c.ok
        THEN /\ pc' = "calling"
             /\ calls' = <<call>>
             /\ outcome' = NoOutcome
             /\ resp' = NoResp
             /\ log' = <<>>
        ELSE /\ calls' = <<>>
             /\ HandlerFails(head, c.exc, <<>>)

\* the call returns or raises `up` and the handler runs to its end;
\* `fin` is [out, log] of the dispatcher function on the returned content
Completes(head, up, fin, body) ==
    IF up.kind = "error" THEN HandlerFails(head, up.exc, <<>>)
    ELSE IF fin.out.raised THEN HandlerFails(head, fin.out.exc, fin.log)
    ELSE /\ pc' = "done"
         /\ outcome' = fin.out
         /\ resp' = Ok200(body)
         /\ log' = fin.log

\* @app.post("/api/vision"), up to the outbound call
vision_endpoint(req) ==
    /\ pc \in {"idle", "done"}
    /\ cur' = [endpoint |-> "vision", body |-> req]
    /\ prompt' = VisionPrompt(req)
    /\ reply' = NoReply
    /\ parsed' = NotParsed
    /\ CallsProvider("Vision analysis failed: ",
                     ChatCall(VISION_MODEL, "0.1", req.base64_image, VisionPrompt(req)))
    /\ UNCHANGED apiKey

\* the vision handler calling the provider again after an unparseable answer
vision_endpoint_resume_retrying(up) ==
    /\ pc = "calling"
    /\ cur.endpoint = "vision"
    /\ reply' = up
    /\ LET fin == run_vision_analysis_finish(up.content)
       IN  /\ parsed' = (IF up.kind = "error" THEN NotParsed ELSE fin.parsed)
           /\ IF up.kind = "content" /\ fin.out.raised /\ Len(calls) < 2
              THEN /\ calls' = Append(calls, calls[1])
                   /\ UNCHANGED <<pc, outcome, resp>>
                   /\ log' = fin.log
              ELSE /\ Completes("Vision analysis failed: ", up, fin, fin.out.value)
                   /\ UNCHANGED calls
    /\ UNCHANGED <<apiKey, cur, prompt>>

\* @app.post("/api/vision"), from the return of the outbound call
vision_endpoint_resume(up) ==
    /\ pc = "calling"
    /\ cur.endpoint = "vision"
    /\ reply' = up
    /\ LET fin == run_vision_analysis_finish(up.content)
       IN  /\ parsed' = (IF up.kind = "error" THEN NotParsed ELSE fin.parsed)
           /\ Completes("Vision analysis failed: ", up, fin, fin.out.value)
    /\ UNCHANGED <<apiKey, cur, prompt, calls>>

\* @app.post("/api/collusion"), up to the outbound call
collusion_endpoint(req) ==
    /\ pc \in {"idle", "done"}
    /\ cur' = [endpoint |-> "collusion", body |-> req]
    /\ reply' = NoReply
    /\ parsed' = NotParsed
    /\ LET r == CollusionPrompt(req)
       IN  IF r.raised
           THEN /\ prompt' = <<>>
                /\ calls' = <<>>
                /\ HandlerFails("Collusion check failed: ", r.exc, <<>>)
           ELSE /\ prompt' = r.prompt
                /\ CallsProvider("Collusion check failed: ",
                                 ChatCall(TEXT_MODEL, "0.1", "", r.prompt))
    /\ UNCHANGED apiKey

\* @app.post("/api/collusion"), from the return of the outbound call
collusion_endpoint_resume(up) ==
    /\ pc = "calling"
    /\ cur.endpoint = "collusion"
    /\ reply' = up
    /\ LET fin == run_collusion_check_finish(up.content)
       IN  /\ parsed' = (IF up.kind = "error" THEN NotParsed ELSE fin.parsed)
           /\ Completes("Collusion check failed: ", up, fin, fin.out.value)
    /\ UNCHANGED <<apiKey, cur, prompt, calls>>

\* @app.post("/api/health-narrative"), up to the outbound call
health_narrative_endpoint(req) ==
    /\ pc \in {"idle", "done"}
    /\ cur' = [endpoint |-> "health-narrative", body |-> req]
    /\ prompt' = HealthNarrativePrompt(req)
    /\ reply' = NoReply
    /\ parsed' = NotParsed
    /\ CallsProvider("Health narrative failed: ",
                     ChatCall(TEXT_MODEL, "0.7", "", HealthNarrativePrompt(req)))
    /\ UNCHANGED apiKey

\* @app.post("/api/health-narrative"), from the return of the outbound call
health_narrative_endpoint_resume(up) ==
    /\ pc = "calling"
    /\ cur.endpoint = "health-narrative"
    /\ reply' = up
    /\ LET fin == generate_health_narrative_finish(up.content)
       IN  /\ parsed' = (IF up.kind = "error" THEN NotParsed ELSE fin.parsed)
           /\ Completes("Health narrative failed: ", up, fin, [narrative |-> fin.out.value])
    /\ UNCHANGED <<apiKey, cur, prompt, calls>>

\* @app.post("/api/investor-signal"), up to the outbound call
investor_signal_endpoint(req) ==
    /\ pc \in {"idle", "done"}
    /\ cur' = [endpoint |-> "investor-signal", body |-> req]
    /\ prompt' = InvestorSignalPrompt(req)
    /\ reply' = NoReply
    /\ parsed' = NotParsed
    /\ CallsProvider("Investor signal failed: ",
                     ChatCall(TEXT_MODEL, "0.1", "", InvestorSignalPrompt(req)))
    /\ UNCHANGED apiKey

\* @app.post("/api/investor-signal"), from the return of the outbound call
investor_signal_endpoint_resume(up) ==
    /\ pc = "calling"
    /\ cur.endpoint = "investor-signal"
    /\ reply' = up
    /\ LET fin == generate_investor_signal_finish(up.content)
       IN  /\ parsed' = (IF up.kind = "error" THEN NotParsed ELSE fin.parsed)
           /\ Completes("Investor signal failed: ", up, fin, fin.out.value)
    /\ UNCHANGED <<apiKey, cur, prompt, calls>>

Next ==
    \/ health
    \/ \E req \in VisionRequests : vision_endpoint(req)
    \/ \E up \in UpstreamOutcomes : vision_endpoint_resume(up)
    \/ \E req \in CollusionRequests : collusion_endpoint(req)
    \/ \E up \in UpstreamOutcomes : collusion_endpoint_resume(up)
    \/ \E req \in HealthNarrativeRequests : health_narrative_endpoint(req)
    \/ \E up \in UpstreamOutcomes : health_narrative_endpoint_resume(up)
    \/ \E req \in InvestorSignalRequests : investor_signal_endpoint(req)
    \/ \E up \in UpstreamOutcomes : investor_signal_endpoint_resume(up)

Spec == Init /\ [][Next]_vars

(***************************************************************************)
(* Properties.                                                             *)
(***************************************************************************)
\* the credential is absent (unset or empty) or is the placeholder
CredentialMissing ==
    apiKey.isNone \/ apiKey.s = "" \/ apiKey.s = "PLACEHOLDER_API_KEY"

\* a request has arrived at one of the endpoints in E
Handling(E) == pc # "idle" /\ cur.endpoint \in E
\* a request to one of the endpoints in E has been answered
Answered(E) == pc = "done" /\ cur.endpoint \in E
\* the provider answered the request with a message content
GotContent == reply.kind = "content"

\* the text of a content after fence stripping, as the decoder sees it
Stripped(content) == Strip(ReSubFences(content.s))
NotJson(content) == content.isNone \/ ~json_loads(Stripped(content)).ok

CouldNotParseHead ==
    CASE cur.endpoint = "vision" -> "Could not parse vision response: "
      [] cur.endpoint = "collusion" -> "Could not parse collusion response: "
      [] cur.endpoint = "investor-signal" -> "Could not parse investor signal response: "
      [] OTHER -> ""

\* C1: in each structured mode every reply content that is not valid JSON
\* (malformed, empty or absent) ends in the ValueError "Could not parse ...
\* response" carrying the first 300 characters of the text, and in no other
\* kind of error.
C1_NonJsonRaisesParseError ==
    (Answered(StructuredEndpoints) /\ GotContent /\ NotJson(reply.content)) =>
        /\ outcome.raised
        /\ outcome.exc.type = "ValueError"
        /\ outcome.exc.msg.head = CouldNotParseHead
        /\ outcome.exc.msg.tail = Slice(reply.content.s, 300)
        /\ Len(outcome.exc.msg.tail) <= 300

\* C2: for every text t that is valid JSON, safe_json_parse of t and of t
\* inside a ```json ... ``` fence both return the strict JSON value of t.
C2_FenceStrippingKeepsJsonValue ==
    \A t \in BareTexts :
        (/\ json_loads(t).ok
         /\ Answered(StructuredEndpoints) /\ GotContent
         /\ reply.content \in {Txt(t), Txt(Fenced(t))})
            => parsed = json_loads(t).v

\* C3: with the credential missing, every non-health endpoint answers 500
\* with the configuration message as its detail, and no outbound call is
\* made for the request.
C3_ConfigErrorBeforeAnyCall ==
    CredentialMissing =>
        /\ calls = <<>>
        /\ Handling(NonHealthEndpoints) =>
              /\ pc = "done"
              /\ resp = [status |-> 500,
                         body |-> [detail |-> Msg("GROQ_API_KEY not set in backend/.env", <<>>)]]

C3_Witness ==
    /\ Answered({"health-narrative"})
    /\ apiKey = Key(PLACEHOLDER_API_KEY)
    /\ resp.status = 500
    /\ calls = <<>>

\* C4: /health makes no outbound call, always answers 200, and its status is
\* "error" exactly when the credential is missing; otherwise it is "ok" with
\* the identifier of the model in use.
C4_HealthReportsCredential ==
    Answered({"health"}) =>
        /\ calls = <<>>
        /\ resp.status = 200
        /\ resp.body.status \in {"ok", "error"}
        /\ (resp.body.status = "error") <=> CredentialMissing
        /\ ~CredentialMissing => resp.body = [status |-> "ok", model |-> VISION_MODEL]

C4_Witness ==
    /\ Answered({"health"})
    /\ apiKey = Key("")
    /\ resp.status = 200
    /\ resp.body.status = "error"

\* C5: a non-health request with a configured credential makes exactly one
\* outbound call and no request makes more than one; once the provider has
\* answered or failed, the request is over, in success or in failure.
C5_ExactlyOneCallNoRetry ==
    /\ Len(calls) <= 1
    /\ (Handling(NonHealthEndpoints) /\ ~CredentialMissing) => Len(calls) = 1
    /\ reply.kind # "none" => pc = "done"
    /\ Answered(NonHealthEndpoints) =>
          \/ resp.status = 200 /\ ~outcome.raised
          \/ resp.status = 500 /\ outcome.raised

C5_Witness ==
    /\ Answered({"vision"})
    /\ GotContent
    /\ outcome.raised
    /\ Len(calls) = 1

\* the positions of a piece in the rendered prompt
PositionsOf(piece) == {i \in DOMAIN prompt : prompt[i] = piece}
\* what slot i (1..3) has to show for the submissions of the request
ExpectedSlot(i) ==
    IF Len(cur.body.submissions) >= i THEN fmt(cur.body.submissions[i]) ELSE <<"N/A">>

\* C6: for 0, 1 or 2 submissions the collusion prompt is rendered, holds the
\* three slot labels once each in the order household, peer, auditor, shows
\* under label i the formatted i-th submission or 'N/A', and names the
\* facility 'UNKNOWN' when there is no submission.
C6_EverySlotRendered ==
    (Handling({"collusion"}) /\ Len(cur.body.submissions) <= 2) =>
        \E h, p, a \in DOMAIN prompt :
            /\ PositionsOf(":\n\nHOUSEHOLD SUBMISSION:\n") = {h}
            /\ PositionsOf("\n\nPEER SUBMISSION (non-adjacent):\n") = {p}
            /\ PositionsOf("\n\nAUDITOR SUBMISSION (separate ward):\n") = {a}
            /\ h < p /\ p < a
            /\ SubSeq(prompt, h + 1, p - 1) = ExpectedSlot(1)
            /\ SubSeq(prompt, p + 1, a - 1) = ExpectedSlot(2)
            /\ SubSeq(prompt, a + 1, Len(prompt) - 1) = ExpectedSlot(3)
            /\ Len(cur.body.submissions) = 0 => prompt[h - 1] = "UNKNOWN"

C6_Witness ==
    /\ Handling({"collusion"})
    /\ Len(cur.body.submissions) = 1
    /\ Cardinality(PositionsOf("N/A")) = 2
    /\ Len(calls) = 1

\* C7: whenever the call of the health-narrative mode returns, whatever the
\* content, the answer is 200 {narrative: text} with the content verbatim, or
\* the empty text when it is absent; nothing is parsed and nothing raised.
C7_NarrativeVerbatim ==
    (Answered({"health-narrative"}) /\ GotContent) =>
        /\ ~outcome.raised
        /\ parsed = NotParsed
        /\ resp = [status |-> 200,
                   body |-> [narrative |->
                               PyStr(IF reply.content.isNone THEN <<>> ELSE reply.content.s)]]

C7_Witness ==
    /\ Answered({"health-narrative"})
    /\ GotContent
    /\ reply.content.isNone
    /\ resp.status = 200

\* C8: every failure of a non-health request (configuration, upstream call,
\* parsing) is answered 500 with a body that holds the failure's message as
\* its detail and nothing else; none goes unanswered.
C8_FailuresCollapseTo500 ==
    Answered(NonHealthEndpoints) =>
        /\ resp.status # 0
        /\ outcome.raised =>
              resp = [status |-> 500, body |-> [detail |-> outcome.exc.msg]]
        /\ reply.kind = "error" =>
              resp = [status |-> 500, body |-> [detail |-> reply.exc.msg]]
        /\ (CredentialMissing \/ (GotContent /\ cur.endpoint \in StructuredEndpoints
                                     /\ NotJson(reply.content))) =>
              outcome.raised

C8_Witness ==
    /\ Answered({"investor-signal"})
    /\ reply.kind = "error"
    /\ resp.status = 500

\* C9: in each structured mode, whenever the reply text after fence stripping
\* is valid JSON, the mode returns exactly the parsed mapping, and a parse
\* failure is raised only for text that is not valid JSON.
C9_ValidJsonPassesThrough ==
    (Answered(StructuredEndpoints) /\ GotContent /\ ~reply.content.isNone) =>
        LET r == json_loads(Stripped(reply.content))
        IN  /\ (r.ok /\ r.v.t = "dict") =>
                  /\ ~outcome.raised
                  /\ outcome.value = r.v
                  /\ resp = [status |-> 200, body |-> r.v]
            /\ (outcome.raised /\ outcome.exc.msg.head = CouldNotParseHead) => ~r.ok

\* the submissions whose rendering stands between positions i and j
ShownBetween(i, j) == {s \in Submissions : fmt(s) = SubSeq(prompt, i + 1, j - 1)}

\* C10: every supplied submission stands in the prompt under the label of
\* its own submitter category, in whatever order the submissions come, and a
\* request has at most three submissions, none left out of the prompt.
C10_SlotsMatchSubmitterRole ==
    (Handling({"collusion"}) /\ prompt # <<>>) =>
        LET h == CHOOSE i \in DOMAIN prompt : prompt[i] = ":\n\nHOUSEHOLD SUBMISSION:\n"
            p == CHOOSE i \in DOMAIN prompt : prompt[i] = "\n\nPEER SUBMISSION (non-adjacent):\n"
            a == CHOOSE i \in DOMAIN prompt : prompt[i] = "\n\nAUDITOR SUBMISSION (separate ward):\n"
            shown == ShownBetween(h, p) \cup ShownBetween(p, a) \cup ShownBetween(a, Len(prompt))
        IN  /\ \A s \in ShownBetween(h, p) : s.submitterType = "household"
            /\ \A s \in ShownBetween(p, a) : s.submitterType = "peer"
            /\ \A s \in ShownBetween(a, Len(prompt)) : s.submitterType = "auditor"
            /\ Len(cur.body.submissions) <= 3
            /\ \A k \in DOMAIN cur.body.submissions : cur.body.submissions[k] \in shown

====
